---- MODULE Spec2Model ----
(***************************************************************************)
(* Model of blobfs (src/blobfs.go): a read-only io/fs file system over a   *)
(* flat blob bucket.  Strings are sequences of one-character strings so    *)
(* that prefixes, the "/" delimiter and the byte order of keys are         *)
(* computed, not assumed.  The bucket (gocloud.dev/blob) is the external   *)
(* backend: Attributes, List (prefix + delimiter, lexicographic order) and *)
(* NewRangeReader are modelled at the places blobfs.go calls them, with    *)
(* their failures and short reads as nondeterministic inputs.              *)
(***************************************************************************)
EXTENDS Integers, Sequences, FiniteSets, TLC

(* ------------------------------ bounds -------------------------------- *)
\* largest object size held by the bucket
MaxSize == 2
\* largest buffer length handed to Read / ReadAt
MaxBuf == 2
\* width of the signed integers of Seek / ReadAt offsets (int64 scaled down)
IntBits == 4
\* largest |n| handed to ReadDir(n)
MaxN == 3

\* F of the value of v, v being evaluated once (a local variable of the code)
With(v, F(_)) == CHOOSE y \in { F(x) : x \in {v} } : TRUE

(* ------------------------------ strings ------------------------------- *)
\* byte value of a character (ASCII), the order the backend sorts keys by
Ord(c) ==
    CASE c = "-" -> 45
      [] c = "." -> 46
      [] c = "/" -> 47
      [] c = "a" -> 97
      [] c = "b" -> 98

\* s < t, bytewise lexicographic: at the first place they differ s has ended or
\* holds the smaller byte
StrLess(s, t) ==
    \E i \in 1..Len(t) :
        /\ \A j \in 1..(i - 1) : j <= Len(s) /\ s[j] = t[j]
        /\ (i > Len(s) \/ (s[i] # t[i] /\ Ord(s[i]) < Ord(t[i])))

\* strings.HasPrefix
HasPrefix(s, p) == Len(p) <= Len(s) /\ SubSeq(s, 1, Len(p)) = p

\* strings.HasSuffix
HasSuffix(s, x) == Len(x) <= Len(s) /\ SubSeq(s, Len(s) - Len(x) + 1, Len(s)) = x

\* strings.TrimSuffix
TrimSuffix(s, x) == IF HasSuffix(s, x) THEN SubSeq(s, 1, Len(s) - Len(x)) ELSE s

\* index of the first "/" of s, 0 when there is none (strings.Index + 1)
IndexSlash(s) ==
    IF \E i \in 1..Len(s) : s[i] = "/"
    THEN CHOOSE i \in 1..Len(s) : s[i] = "/" /\ \A j \in 1..(i - 1) : s[j] # "/"
    ELSE 0

RECURSIVE Split(_)
\* strings.Split(s, "/"): the segments of s, empty ones included
Split(s) ==
    LET i == IndexSlash(s)
    IN  IF i = 0 THEN <<s>>
        ELSE <<SubSeq(s, 1, i - 1)>> \o Split(SubSeq(s, i + 1, Len(s)))

RECURSIVE ValidElems(_)
\* the loop of io/fs.ValidPath: every element of name is non-empty, not "." and
\* not ".."
ValidElems(name) ==
    With(IndexSlash(name), LAMBDA i :
    With(IF i = 0 THEN name ELSE SubSeq(name, 1, i - 1), LAMBDA elem :
        IF elem = <<>> \/ elem = <<".">> \/ elem = <<".", ".">> THEN FALSE
        ELSE IF i = 0 THEN TRUE
        ELSE ValidElems(SubSeq(name, i + 1, Len(name)))))

\* io/fs.ValidPath: the root marker, or a name whose elements are all valid
ValidPath(name) == name = <<".">> \/ ValidElems(name)

(* ------------------------- the keys and paths ------------------------- *)
Ka    == <<"a">>
Kab   == <<"a", ".", "b">>
Ka_a  == <<"a", "/", "a">>
Ka_a_b == <<"a", "/", "a", "/", "b">>

\* the keys an object may be stored under
Universe == {Ka, Kab, Ka_a, Ka_a_b}

\* the names handed to Open / ReadFile / ReadDir: valid and invalid ones
Names ==
    Universe \cup
    { <<".">>, <<"a", "-">>, <<"a", "/", "b">>, <<"b">>,
      <<>>, <<"/", "a">>, <<"a", "/">>, <<"a", "/", "/", "a">>,
      <<".", ".">>, <<".", ".", "/", "a">>, <<"a", "/", ".">> }

Sizes == 0..MaxSize

\* every content the bucket can have: some keys of the universe, each with a size
Buckets == UNION { [S -> Sizes] : S \in SUBSET Universe }

\* the bytes of the object stored under k (byte i has value i: never 0)
Content(bkt, k) == [i \in 1..bkt[k] |-> i]

(* ------------------------------ errors -------------------------------- *)
Nil == [wrapped |-> FALSE, Op |-> "", Path |-> <<>>, Err |-> "nil"]
Plain(e) == [wrapped |-> FALSE, Op |-> "", Path |-> <<>>, Err |-> e]
\* &fs.PathError{Op, Path, Err}
PathError(op, path, e) == [wrapped |-> TRUE, Op |-> op, Path |-> path, Err |-> e]

opOpen == "open"
opRead == "read"
opSeek == "seek"

(* ------------------------------ backend ------------------------------- *)
\* blob.ListObject
ListObject(key, size, isDir) == [Key |-> key, Size |-> size, IsDir |-> isDir]

\* what one key contributes to List(prefix, delimiter "/"): itself, or the
\* directory it is collapsed into at the first "/" after the prefix
Listed(bkt, prefix, k) ==
    LET rest == SubSeq(k, Len(prefix) + 1, Len(k))
        i == IndexSlash(rest)
    IN  IF i = 0 THEN ListObject(k, bkt[k], FALSE)
        ELSE ListObject(prefix \o SubSeq(rest, 1, i), 0, TRUE)

\* the objects of a set in lexicographic order of their (distinct) keys
SortByKey(S) ==
    [i \in 1..Cardinality(S) |->
        CHOOSE x \in S : Cardinality({ y \in S : StrLess(y.Key, x.Key) }) = i - 1]

\* bucket.List(&blob.ListOptions{Delimiter: "/", Prefix: prefix}): everything the
\* iterator yields before io.EOF
List(bkt, prefix) ==
    With({ Listed(bkt, prefix, k) : k \in { x \in DOMAIN bkt : HasPrefix(x, prefix) } },
         LAMBDA S : SortByKey(S))

\* bucket.Attributes(ctx, name); fail: the backend call fails for another reason
\* than the key being absent
Attributes(bkt, name, fail) ==
    IF fail THEN [err |-> "BackendErr", Size |-> 0]
    ELSE IF name \in DOMAIN bkt THEN [err |-> "nil", Size |-> bkt[name]]
    ELSE [err |-> "NotFound", Size |-> 0]

(* ---------------------------- path resolver --------------------------- *)
rootFile == ListObject(<<>>, 0, TRUE)

NoEntry == ListObject(<<>>, 0, FALSE)

\* searchDir advancing the iterator until it finds name + "/" or the listing ends
searchDir_Drain(bkt, name0, fail) ==
    With(TrimSuffix(name0, <<"/">>), LAMBDA name :
    With(List(bkt, name), LAMBDA objs :
        IF fail THEN [entry |-> NoEntry, err |-> "BackendErr", calls |-> <<"List", "Next">>]
        ELSE IF \E i \in 1..Len(objs) : objs[i].Key = name \o <<"/">>
        THEN With(CHOOSE i \in 1..Len(objs) : objs[i].Key = name \o <<"/">>, LAMBDA i :
                 [entry |-> objs[i], err |-> "nil",
                  calls |-> <<"List">> \o [j \in 1..i |-> "Next"]])
        ELSE [entry |-> NoEntry, err |-> "ErrNotExist",
              calls |-> <<"List">> \o [j \in 1..(Len(objs) + 1) |-> "Next"]]))

\* FS.searchDir; fail: the iterator's first Next returns a backend error
searchDir(bkt, name0, fail) ==
    With(TrimSuffix(name0, <<"/">>), LAMBDA name :
    With(List(bkt, name), LAMBDA objs :
        IF fail THEN [entry |-> NoEntry, err |-> "BackendErr", calls |-> <<"List", "Next">>]
        ELSE IF objs = <<>>
        THEN [entry |-> NoEntry, err |-> "ErrNotExist", calls |-> <<"List", "Next">>]
        ELSE IF objs[1].Key = name \o <<"/">>
        THEN [entry |-> objs[1], err |-> "nil", calls |-> <<"List", "Next">>]
        ELSE [entry |-> NoEntry, err |-> "ErrNotExist", calls |-> <<"List", "Next">>]))

\* lookup with the directory probe tried before the attributes fetch
lookup_ProbeFirst(bkt, name, af, pf) ==
    IF ~ ValidPath(name)
    THEN [entry |-> NoEntry, err |-> "ErrInvalid", calls |-> <<>>]
    ELSE IF name = <<".">>
    THEN [entry |-> rootFile, err |-> "nil", calls |-> <<>>]
    ELSE With(searchDir(bkt, name, pf), LAMBDA d :
             IF d.err = "nil" THEN d
             ELSE With(Attributes(bkt, name, af), LAMBDA attr :
                      IF attr.err = "nil"
                      THEN [entry |-> ListObject(name, attr.Size, FALSE), err |-> "nil",
                            calls |-> d.calls \o <<"Attributes">>]
                      ELSE [d EXCEPT !.calls = @ \o <<"Attributes">>]))

\* lookup without the fs.ValidPath check
lookup_NoValidate(bkt, name, af, pf) ==
    IF name = <<".">>
    THEN [entry |-> rootFile, err |-> "nil", calls |-> <<>>]
    ELSE With(Attributes(bkt, name, af), LAMBDA attr :
             IF attr.err = "nil"
             THEN [entry |-> ListObject(name, attr.Size, FALSE), err |-> "nil",
                   calls |-> <<"Attributes">>]
             ELSE With(searchDir(bkt, name, pf), LAMBDA d :
                      [d EXCEPT !.calls = <<"Attributes">> \o @]))

\* FS.lookup; af: the attributes fetch fails, pf: the directory probe fails
lookup(bkt, name, af, pf) ==
    IF ~ ValidPath(name)
    THEN [entry |-> NoEntry, err |-> "ErrInvalid", calls |-> <<>>]
    ELSE IF name = <<".">>
    THEN [entry |-> rootFile, err |-> "nil", calls |-> <<>>]
    ELSE With(Attributes(bkt, name, af), LAMBDA attr :
             IF attr.err = "nil"
             THEN [entry |-> ListObject(name, attr.Size, FALSE), err |-> "nil",
                   calls |-> <<"Attributes">>]
             ELSE With(searchDir(bkt, name, pf), LAMBDA d :
                      [d EXCEPT !.calls = <<"Attributes">> \o @]))

(* ------------------------------ handles ------------------------------- *)
NoHandle == [kind |-> "none"]

\* newOpenFile
newOpenFile(entry) == [kind |-> "file", self |-> entry, offset |-> 0]

\* the backend calls of one listing that ends at its k-th Next
ListCalls(k) == <<"List">> \o [i \in 1..k |-> "Next"]

\* newOpenDir leaving the loop at a failing Next as it does at io.EOF: a handle
\* with the children listed so far
newOpenDir_Partial(entry, bkt, failAt) ==
    With(List(bkt, entry.Key), LAMBDA objs :
        IF failAt \in 1..(Len(objs) + 1)
        THEN [handle |-> [kind |-> "dir", self |-> entry,
                          entries |-> SubSeq(objs, 1, failAt - 1), offset |-> 0],
              err |-> "nil", calls |-> ListCalls(failAt)]
        ELSE [handle |-> [kind |-> "dir", self |-> entry, entries |-> objs, offset |-> 0],
              err |-> "nil", calls |-> ListCalls(Len(objs) + 1)])

\* newOpenDir; failAt: which Next of the listing returns a backend error (0: none)
newOpenDir(entry, bkt, failAt) ==
    With(List(bkt, entry.Key), LAMBDA objs :
        IF failAt \in 1..(Len(objs) + 1)
        THEN [handle |-> NoHandle, err |-> "BackendErr", calls |-> ListCalls(failAt)]
        ELSE [handle |-> [kind |-> "dir", self |-> entry, entries |-> objs, offset |-> 0],
              err |-> "nil", calls |-> ListCalls(Len(objs) + 1)])

\* FS.Open; lcalls: the backend calls of the resolution, calls: all of them
Open(bkt, name, af, pf, failAt) ==
    With(lookup(bkt, name, af, pf), LAMBDA r :
        IF r.err # "nil"
        THEN [handle |-> NoHandle, err |-> PathError(opOpen, name, r.err),
              lcalls |-> r.calls, calls |-> r.calls]
        ELSE IF r.entry.IsDir
        THEN With(newOpenDir(r.entry, bkt, failAt), LAMBDA d :
                 IF d.err # "nil"
                 THEN [handle |-> NoHandle, err |-> PathError(opOpen, name, d.err),
                       lcalls |-> r.calls, calls |-> r.calls \o d.calls]
                 ELSE [handle |-> d.handle, err |-> Nil,
                       lcalls |-> r.calls, calls |-> r.calls \o d.calls])
        ELSE [handle |-> newOpenFile(r.entry), err |-> Nil,
              lcalls |-> r.calls, calls |-> r.calls])

(* --------------------------- integer width ---------------------------- *)
TwoTo(k) == 2 ^ k
MinInt == 0 - TwoTo(IntBits - 1)
MaxInt == TwoTo(IntBits - 1) - 1
Ints == MinInt..MaxInt
\* two's-complement wrap of a sum to the width of the offsets
Wrap(x) == ((x - MinInt) % TwoTo(IntBits)) + MinInt

Min(a, b) == IF a < b THEN a ELSE b
Max(a, b) == IF a > b THEN a ELSE b

(* ----------------------------- range reads ---------------------------- *)
\* the bytes the object under key holds from offset on, at most length of them
Avail(bkt, key, offset, length) ==
    IF key \in DOMAIN bkt /\ offset >= 0
    THEN Max(0, Min(length, bkt[key] - offset))
    ELSE 0

\* what the backend may do on NewRangeReader(key, offset, length) + one Read + Close:
\* fail to open (always for an absent key or a negative offset), or deliver n bytes
\* (a short read when n is below what is there) with no error, with io.EOF once the
\* range is exhausted, or with a backend error; Close may fail too
Outcomes(bkt, key, offset, length) ==
    LET avail == Avail(bkt, key, offset, length)
        canOpen == key \in DOMAIN bkt /\ offset >= 0
    IN  { o \in [openFail : BOOLEAN, n : 0..avail, err : {"nil", "EOF", "BackendErr"},
                 closeErr : {"nil", "BackendErr"}] :
            IF o.openFail
            THEN o.n = 0 /\ o.err = "nil" /\ o.closeErr = "nil"
            ELSE /\ canOpen
                 /\ (o.err = "EOF" => o.n = avail)
                 /\ (o.err # "nil" => o.closeErr = "nil") }

\* the bytes a read of n bytes at offset copies into the buffer
Bytes(bkt, key, offset, n) ==
    IF n = 0 THEN <<>> ELSE SubSeq(Content(bkt, key), offset + 1, offset + n)

(* ------------------------------ openFile ------------------------------ *)
\* Read testing the cursor with > for >=: at the end it asks the backend again
openFile_Read_Late(f, bkt, length, o) ==
    IF length = 0
    THEN [h |-> f, n |-> 0, err |-> Nil, data |-> <<>>, opened |-> FALSE, closed |-> FALSE]
    ELSE IF f.offset > f.self.Size
    THEN [h |-> f, n |-> 0, err |-> Plain("EOF"), data |-> <<>>,
          opened |-> FALSE, closed |-> FALSE]
    ELSE IF o.openFail
    THEN [h |-> f, n |-> 0, err |-> PathError(opRead, f.self.Key, "BackendErr"),
          data |-> <<>>, opened |-> FALSE, closed |-> FALSE]
    ELSE LET m == [f EXCEPT !.offset = Wrap(f.offset + o.n)]
             d == Bytes(bkt, f.self.Key, f.offset, o.n)
         IN  IF o.err # "nil"
             THEN [h |-> m, n |-> o.n, err |-> Plain(o.err), data |-> d,
                   opened |-> TRUE, closed |-> FALSE]
             ELSE [h |-> m, n |-> o.n, err |-> Plain(o.closeErr), data |-> d,
                   opened |-> TRUE, closed |-> TRUE]

\* openFile.Read(b) with len(b) = length; o: the backend's outcome
openFile_Read(f, bkt, length, o) ==
    IF length = 0
    THEN [h |-> f, n |-> 0, err |-> Nil, data |-> <<>>, opened |-> FALSE, closed |-> FALSE]
    ELSE IF f.offset >= f.self.Size
    THEN [h |-> f, n |-> 0, err |-> Plain("EOF"), data |-> <<>>,
          opened |-> FALSE, closed |-> FALSE]
    ELSE IF o.openFail
    THEN [h |-> f, n |-> 0, err |-> PathError(opRead, f.self.Key, "BackendErr"),
          data |-> <<>>, opened |-> FALSE, closed |-> FALSE]
    ELSE LET g == [f EXCEPT !.offset = Wrap(f.offset + o.n)]
             d == Bytes(bkt, f.self.Key, f.offset, o.n)
         IN  IF o.err # "nil"
             THEN [h |-> g, n |-> o.n, err |-> Plain(o.err), data |-> d,
                   opened |-> TRUE, closed |-> FALSE]
             ELSE [h |-> g, n |-> o.n, err |-> Plain(o.closeErr), data |-> d,
                   opened |-> TRUE, closed |-> TRUE]

\* ReadAt reporting end-of-stream only when the backend does: the test for
\* offset + size == Size() left out
openFile_ReadAt_NoEOF(f, bkt, length, offset, o) ==
    IF length = 0
    THEN [h |-> f, n |-> 0, err |-> Nil, data |-> <<>>, opened |-> FALSE, closed |-> FALSE]
    ELSE IF offset >= f.self.Size
    THEN [h |-> f, n |-> 0, err |-> Plain("EOF"), data |-> <<>>,
          opened |-> FALSE, closed |-> FALSE]
    ELSE IF o.openFail
    THEN [h |-> f, n |-> 0, err |-> PathError(opRead, f.self.Key, "BackendErr"),
          data |-> <<>>, opened |-> FALSE, closed |-> FALSE]
    ELSE IF o.err # "nil"
    THEN [h |-> f, n |-> o.n, err |-> Plain(o.err),
          data |-> Bytes(bkt, f.self.Key, offset, o.n), opened |-> TRUE, closed |-> FALSE]
    ELSE [h |-> f, n |-> o.n, err |-> Plain(o.closeErr),
          data |-> Bytes(bkt, f.self.Key, offset, o.n), opened |-> TRUE, closed |-> TRUE]

\* ReadAt leaving the cursor behind the bytes it read, as Read does
openFile_ReadAt_Moves(f, bkt, length, offset, o) ==
    IF length = 0
    THEN [h |-> f, n |-> 0, err |-> Nil, data |-> <<>>, opened |-> FALSE, closed |-> FALSE]
    ELSE IF offset >= f.self.Size
    THEN [h |-> f, n |-> 0, err |-> Plain("EOF"), data |-> <<>>,
          opened |-> FALSE, closed |-> FALSE]
    ELSE IF o.openFail
    THEN [h |-> f, n |-> 0, err |-> PathError(opRead, f.self.Key, "BackendErr"),
          data |-> <<>>, opened |-> FALSE, closed |-> FALSE]
    ELSE LET d == Bytes(bkt, f.self.Key, offset, o.n)
             m == [f EXCEPT !.offset = Wrap(offset + o.n)]
         IN  IF Wrap(offset + o.n) = f.self.Size
             THEN [h |-> m, n |-> o.n, err |-> Plain("EOF"), data |-> d,
                   opened |-> TRUE, closed |-> FALSE]
             ELSE IF o.err # "nil"
             THEN [h |-> m, n |-> o.n, err |-> Plain(o.err), data |-> d,
                   opened |-> TRUE, closed |-> FALSE]
             ELSE [h |-> m, n |-> o.n, err |-> Plain(o.closeErr), data |-> d,
                   opened |-> TRUE, closed |-> TRUE]

\* openFile.ReadAt(b, offset) with len(b) = length; o: the backend's outcome
openFile_ReadAt(f, bkt, length, offset, o) ==
    IF length = 0
    THEN [h |-> f, n |-> 0, err |-> Nil, data |-> <<>>, opened |-> FALSE, closed |-> FALSE]
    ELSE IF offset >= f.self.Size
    THEN [h |-> f, n |-> 0, err |-> Plain("EOF"), data |-> <<>>,
          opened |-> FALSE, closed |-> FALSE]
    ELSE IF o.openFail
    THEN [h |-> f, n |-> 0, err |-> PathError(opRead, f.self.Key, "BackendErr"),
          data |-> <<>>, opened |-> FALSE, closed |-> FALSE]
    ELSE LET d == Bytes(bkt, f.self.Key, offset, o.n)
         IN  IF Wrap(offset + o.n) = f.self.Size
             THEN [h |-> f, n |-> o.n, err |-> Plain("EOF"), data |-> d,
                   opened |-> TRUE, closed |-> FALSE]
             ELSE IF o.err # "nil"
             THEN [h |-> f, n |-> o.n, err |-> Plain(o.err), data |-> d,
                   opened |-> TRUE, closed |-> FALSE]
             ELSE [h |-> f, n |-> o.n, err |-> Plain(o.closeErr), data |-> d,
                   opened |-> TRUE, closed |-> TRUE]

\* io.SeekStart, io.SeekCurrent, io.SeekEnd
SeekStart == 0
SeekCurrent == 1
SeekEnd == 2

\* Seek refusing the offset size itself (>= for >)
openFile_Seek_Strict(f, offset, whence) ==
    IF whence \notin {SeekStart, SeekCurrent, SeekEnd}
    THEN [h |-> f, ret |-> 0, err |-> PathError(opSeek, f.self.Key, "ErrInvalid")]
    ELSE LET abs == CASE whence = SeekStart -> offset
                      [] whence = SeekCurrent -> Wrap(offset + f.offset)
                      [] whence = SeekEnd -> Wrap(offset + f.self.Size)
         IN  IF abs < 0 \/ abs >= f.self.Size
             THEN [h |-> f, ret |-> 0, err |-> PathError(opSeek, f.self.Key, "ErrInvalid")]
             ELSE [h |-> [f EXCEPT !.offset = abs], ret |-> abs, err |-> Nil]

\* openFile.Seek
openFile_Seek(f, offset, whence) ==
    IF whence \notin {SeekStart, SeekCurrent, SeekEnd}
    THEN [h |-> f, ret |-> 0, err |-> PathError(opSeek, f.self.Key, "ErrInvalid")]
    ELSE LET abs == CASE whence = SeekStart -> offset
                      [] whence = SeekCurrent -> Wrap(offset + f.offset)
                      [] whence = SeekEnd -> Wrap(offset + f.self.Size)
         IN  IF abs < 0 \/ abs > f.self.Size
             THEN [h |-> f, ret |-> 0, err |-> PathError(opSeek, f.self.Key, "ErrInvalid")]
             ELSE [h |-> [f EXCEPT !.offset = abs], ret |-> abs, err |-> Nil]

(* ------------------------------ openDir ------------------------------- *)
\* openDir.Read
openDir_Read(d) == [n |-> 0, err |-> PathError(opRead, d.self.Key, "is a directory")]

\* ReadDir signalling end-of-stream together with a remainder shorter than n
openDir_ReadDir_EofOnShort(d, n) ==
    LET rem == Len(d.entries) - d.offset
        count == IF n > 0 /\ rem > n THEN n ELSE rem
    IN  IF count = 0
        THEN IF n <= 0 THEN [h |-> d, entries |-> <<>>, err |-> Nil]
             ELSE [h |-> d, entries |-> <<>>, err |-> Plain("EOF")]
        ELSE [h |-> [d EXCEPT !.offset = d.offset + count],
              entries |-> SubSeq(d.entries, d.offset + 1, d.offset + count),
              err |-> IF n > 0 /\ rem < n THEN Plain("EOF") ELSE Nil]

\* ReadDir signalling end-of-stream on an empty result whatever n is
openDir_ReadDir_EofAlways(d, n) ==
    LET rem == Len(d.entries) - d.offset
        count == IF n > 0 /\ rem > n THEN n ELSE rem
    IN  IF count = 0
        THEN [h |-> d, entries |-> <<>>, err |-> Plain("EOF")]
        ELSE [h |-> [d EXCEPT !.offset = d.offset + count],
              entries |-> SubSeq(d.entries, d.offset + 1, d.offset + count),
              err |-> Nil]

\* ReadDir copying from the start of the child list (d.entries[i] for
\* d.entries[d.offset+i])
openDir_ReadDir_FromStart(d, n) ==
    LET rem == Len(d.entries) - d.offset
        count == IF n > 0 /\ rem > n THEN n ELSE rem
    IN  IF count = 0
        THEN IF n <= 0 THEN [h |-> d, entries |-> <<>>, err |-> Nil]
             ELSE [h |-> d, entries |-> <<>>, err |-> Plain("EOF")]
        ELSE [h |-> [d EXCEPT !.offset = d.offset + count],
              entries |-> SubSeq(d.entries, 1, count),
              err |-> Nil]

\* openDir.ReadDir(n)
openDir_ReadDir(d, n) ==
    LET rem == Len(d.entries) - d.offset
        count == IF n > 0 /\ rem > n THEN n ELSE rem
    IN  IF count = 0
        THEN IF n <= 0 THEN [h |-> d, entries |-> <<>>, err |-> Nil]
             ELSE [h |-> d, entries |-> <<>>, err |-> Plain("EOF")]
        ELSE [h |-> [d EXCEPT !.offset = d.offset + count],
              entries |-> SubSeq(d.entries, d.offset + 1, d.offset + count),
              err |-> Nil]

(* ------------------------------- facade ------------------------------- *)
\* the buffer make([]byte, size) after its first n bytes were overwritten by data
Filled(size, data) == [i \in 1..size |-> IF i <= Len(data) THEN data[i] ELSE 0]

\* FS.ReadFile; o: the backend's outcome for the one ReadAt
FS_ReadFile(bkt, name, af, pf, failAt, o) ==
    With(Open(bkt, name, af, pf, failAt), LAMBDA op :
        IF op.err # Nil THEN [data |-> <<>>, err |-> op.err]
        ELSE IF op.handle.kind # "file"
        THEN [data |-> <<>>, err |-> PathError(opRead, name, "is a directory")]
        ELSE With(openFile_ReadAt(op.handle, bkt, op.handle.self.Size, 0, o), LAMBDA r :
                 IF r.err # Plain("EOF") THEN [data |-> <<>>, err |-> r.err]
                 ELSE [data |-> Filled(op.handle.self.Size, r.data), err |-> Nil]))

\* FS.ReadDir
FS_ReadDir(bkt, name, af, pf, failAt) ==
    With(Open(bkt, name, af, pf, failAt), LAMBDA op :
        IF op.err # Nil THEN [entries |-> <<>>, err |-> op.err]
        ELSE IF op.handle.kind # "dir"
        THEN [entries |-> <<>>, err |-> PathError(opRead, name, "not a directory")]
        ELSE With(openDir_ReadDir(op.handle, 0 - 1), LAMBDA r :
                 [entries |-> r.entries, err |-> r.err]))

\* Name without the removal of the trailing "/"
Name_NoTrim(e) ==
    IF e.Key = <<>> THEN <<".">>
    ELSE LET slice == Split(e.Key)
         IN  slice[Len(slice)]

\* fileListEntry.Name
Name(e) ==
    IF e.Key = <<>> THEN <<".">>
    ELSE LET name == IF e.Key[Len(e.Key)] = "/" THEN SubSeq(e.Key, 1, Len(e.Key) - 1)
                     ELSE e.Key
             slice == Split(name)
         IN  slice[Len(slice)]

(* ------------------------------- state -------------------------------- *)
VARIABLES
    bucket,   \* the backend: stored key -> object size
    h,        \* the handle the caller holds (NoHandle: none)
    last,     \* the call that has just returned (its name, inputs, backend outcomes
              \* and results), Idle once the caller has taken the result
    g,        \* a second handle, held by another caller (NoHandle: none)
    snap,     \* history: what the backend listed under h's directory when h was opened
    acc       \* history: what the streaming calls on h (Read, ReadDir) have returned
              \* since h was opened

vars == <<bucket, h, last, g, snap, acc>>

\* nothing returned yet.  ok: every streaming call on h so far was a Read with a
\* non-empty buffer that the backend answered with at least one byte and no error
\* (or that found the cursor at the end), or a ReadDir(n > 0); out: the results of
\* those calls, concatenated; k: how many of them returned something
NoAcc == [ok |-> TRUE, out |-> <<>>, k |-> 0]

\* another kind of call has been made on h: its results are no longer followed
Poisoned == [ok |-> FALSE, out |-> <<>>, k |-> 0]

\* the prefix under which the children of directory name are stored
DirPrefix(name) == IF name = <<".">> THEN <<>> ELSE name \o <<"/">>

\* a range read that was never issued
NoOutcome == [openFail |-> FALSE, n |-> 0, err |-> "nil", closeErr |-> "nil"]

\* the backend faults that can strike Open(name): af and pf only at calls lookup
\* makes, failAt only at a Next the directory listing makes
Faults(bkt, name) ==
    { f \in [af : BOOLEAN, pf : BOOLEAN, failAt : 0..(Cardinality(DOMAIN bkt) + 1)] :
        With(lookup(bkt, name, f.af, f.pf), LAMBDA r :
            /\ f.af => (ValidPath(name) /\ name # <<".">>)
            /\ f.pf => (Len(r.calls) > 1)
            /\ (f.failAt # 0) =>
                  (r.err = "nil" /\ r.entry.IsDir
                     /\ f.failAt <= Len(List(bkt, r.entry.Key)) + 1)) }

\* the outcomes of the range read ReadFile(name) issues, if it issues one
FileOutcomes(bkt, name, f) ==
    With(Open(bkt, name, f.af, f.pf, f.failAt), LAMBDA op :
        IF op.err = Nil /\ op.handle.kind = "file" /\ op.handle.self.Size > 0
        THEN Outcomes(bkt, name, 0, op.handle.self.Size)
        ELSE {NoOutcome})

\* the outcomes of the range read a Read / ReadAt of length bytes at offset issues
HandleOutcomes(bkt, f, offset, length) ==
    IF length > 0 /\ offset < f.self.Size
    THEN Outcomes(bkt, f.self.Key, offset, length)
    ELSE {NoOutcome}

Idle == [op |-> "idle"]

Init ==
    /\ bucket \in Buckets
    /\ h = NoHandle
    /\ last = Idle
    /\ g = NoHandle
    /\ snap = <<>>
    /\ acc = NoAcc

\* f, err := fsys.Open(name).  The model follows one handle at a time: the facade
\* is called while the caller holds none (no facade call reads or writes a handle).
DoOpen ==
    /\ last = Idle
    /\ h = NoHandle
    /\ \E name \in Names : \E f \in Faults(bucket, name) :
         \E r \in { Open(bucket, name, f.af, f.pf, f.failAt) } :
             /\ h' = r.handle
             /\ last' = [op |-> "Open", name |-> name, faults |-> f, err |-> r.err,
                         handle |-> r.handle, lcalls |-> r.lcalls, calls |-> r.calls]
             /\ snap' = IF r.handle.kind = "dir" THEN List(bucket, DirPrefix(name))
                        ELSE <<>>
             /\ acc' = NoAcc
             /\ UNCHANGED <<bucket, g>>

\* b, err := fsys.ReadFile(name)
DoReadFile ==
    /\ last = Idle
    /\ h = NoHandle
    /\ \E name \in Names : \E f \in Faults(bucket, name) :
         \E o \in FileOutcomes(bucket, name, f) :
            \E r \in { FS_ReadFile(bucket, name, f.af, f.pf, f.failAt, o) } :
                /\ last' = [op |-> "ReadFile", name |-> name, faults |-> f, rr |-> o,
                            data |-> r.data, err |-> r.err]
                /\ UNCHANGED <<bucket, h, g, snap, acc>>

\* entries, err := fsys.ReadDir(name)
DoReadDir ==
    /\ last = Idle
    /\ h = NoHandle
    /\ \E name \in Names : \E f \in Faults(bucket, name) :
            \E r \in { FS_ReadDir(bucket, name, f.af, f.pf, f.failAt) } :
                /\ last' = [op |-> "ReadDir", name |-> name, faults |-> f,
                            entries |-> r.entries, err |-> r.err]
                /\ UNCHANGED <<bucket, h, g, snap, acc>>

\* n, err := f.Read(b)
DoRead ==
    /\ last = Idle
    /\ h.kind = "file"
    /\ \E length \in 0..MaxBuf : \E o \in HandleOutcomes(bucket, h, h.offset, length) :
          \E r \in { openFile_Read(h, bucket, length, o) } :
              /\ h' = r.h
              /\ last' = [op |-> "Read", pre |-> h, length |-> length, rr |-> o,
                          n |-> r.n, err |-> r.err, data |-> r.data,
                          opened |-> r.opened, closed |-> r.closed]
              /\ acc' = IF /\ acc.ok /\ length > 0
                            /\ \/ r.err = Plain("EOF") /\ ~ r.opened
                               \/ r.opened /\ r.n >= 1 /\ r.err = Nil
                         THEN [ok |-> TRUE, out |-> acc.out \o r.data,
                               k |-> IF r.n > 0 THEN acc.k + 1 ELSE acc.k]
                         ELSE Poisoned
              /\ UNCHANGED <<bucket, g, snap>>

\* the offsets handed to ReadAt
ReadAtOffsets == (0 - 1)..(MaxSize + 1)

\* n, err := f.ReadAt(b, offset)
DoReadAt ==
    /\ last = Idle
    /\ h.kind = "file"
    /\ \E length \in 0..MaxBuf : \E offset \in ReadAtOffsets :
        \E o \in HandleOutcomes(bucket, h, offset, length) :
          \E r \in { openFile_ReadAt(h, bucket, length, offset, o) } :
              /\ h' = r.h
              /\ last' = [op |-> "ReadAt", pre |-> h, length |-> length,
                          offset |-> offset, rr |-> o,
                          n |-> r.n, err |-> r.err, data |-> r.data,
                          opened |-> r.opened, closed |-> r.closed]
              /\ acc' = Poisoned
              /\ UNCHANGED <<bucket, g, snap>>

\* the whence values handed to Seek: the three of io, and one that is none of them
Whences == {SeekStart, SeekCurrent, SeekEnd, SeekEnd + 1}

\* the offsets handed to Seek: around the sizes, and the two ends of the integers
SeekOffsets == {MinInt, MaxInt} \cup ((0 - (MaxSize + 1))..(MaxSize + 1))

\* pos, err := f.Seek(offset, whence)
DoSeek ==
    /\ last = Idle
    /\ h.kind = "file"
    /\ \E offset \in SeekOffsets : \E whence \in Whences :
          \E r \in { openFile_Seek(h, offset, whence) } :
              /\ h' = r.h
              /\ last' = [op |-> "Seek", pre |-> h, offset |-> offset,
                          whence |-> whence, ret |-> r.ret, err |-> r.err]
              /\ acc' = Poisoned
              /\ UNCHANGED <<bucket, g, snap>>

\* info, err := f.Stat() on either kind of handle
DoStat ==
    /\ last = Idle
    /\ h.kind # "none"
    /\ last' = [op |-> "Stat", pre |-> h, info |-> h.self, err |-> Nil, calls |-> <<>>]
    /\ UNCHANGED <<bucket, h, g, snap, acc>>

\* err := f.Close() on either kind of handle: nothing to release
DoClose ==
    /\ last = Idle
    /\ h.kind # "none"
    /\ last' = [op |-> "Close", pre |-> h, err |-> Nil, calls |-> <<>>]
    /\ UNCHANGED <<bucket, h, g, snap, acc>>

\* ReadDir on a handle that lists the backend again at every call
DoDirReadDir_Live ==
    /\ last = Idle
    /\ h.kind = "dir"
    /\ \E n \in (0 - 1)..MaxN :
          \E r \in { openDir_ReadDir([h EXCEPT !.entries = List(bucket, h.self.Key)], n) } :
              /\ h' = r.h
              /\ last' = [op |-> "DirReadDir", pre |-> h, n |-> n,
                          entries |-> r.entries, err |-> r.err,
                          calls |-> ListCalls(Len(r.h.entries) + 1)]
              /\ acc' = Poisoned
              /\ UNCHANGED <<bucket, g, snap>>

\* entries, err := d.ReadDir(n)
DoDirReadDir ==
    /\ last = Idle
    /\ h.kind = "dir"
    /\ \E n \in (0 - 1)..MaxN :
          \E r \in { openDir_ReadDir(h, n) } :
              /\ h' = r.h
              /\ last' = [op |-> "DirReadDir", pre |-> h, n |-> n,
                          entries |-> r.entries, err |-> r.err, calls |-> <<>>]
              /\ acc' = IF acc.ok /\ n > 0
                         THEN [ok |-> TRUE, out |-> acc.out \o r.entries,
                               k |-> IF r.entries # <<>> THEN acc.k + 1 ELSE acc.k]
                         ELSE Poisoned
              /\ UNCHANGED <<bucket, g, snap>>

\* n, err := d.Read(b)
DoDirRead ==
    /\ last = Idle
    /\ h.kind = "dir"
    /\ \E r \in { openDir_Read(h) } :
          last' = [op |-> "DirRead", pre |-> h, n |-> r.n, err |-> r.err,
                   calls |-> <<>>]
    /\ UNCHANGED <<bucket, h, g, snap, acc>>

\* the caller lets go of the handle (Close itself releases nothing)
Release ==
    /\ last = Idle
    /\ h.kind # "none"
    /\ h' = NoHandle
    /\ snap' = <<>>
    /\ acc' = NoAcc
    /\ UNCHANGED <<bucket, last, g>>

\* the caller takes the result of the call that returned
Return ==
    /\ last # Idle
    /\ last' = Idle
    /\ UNCHANGED <<bucket, h, g, snap, acc>>

Next ==
    \/ DoOpen
    \/ DoReadFile
    \/ DoReadDir
    \/ DoRead
    \/ DoReadAt
    \/ DoSeek
    \/ DoStat
    \/ DoClose
    \/ DoDirReadDir
    \/ DoDirRead
    \/ Release
    \/ Return

Spec == Init /\ [][Next]_vars

(* ------------------- the bucket changing under a handle ---------------- *)
\* the keys other writers of the bucket put and delete
MutKeys == {Ka, Ka_a}

MutBuckets == UNION { [S -> Sizes] : S \in SUBSET MutKeys }

\* the bucket after Upload(k) of an object of size s
Put(bkt, k, s) == [x \in DOMAIN bkt \cup {k} |-> IF x = k THEN s ELSE bkt[x]]

\* the bucket after Delete(k)
Delete(bkt, k) == [x \in DOMAIN bkt \ {k} |-> bkt[x]]

InitMut ==
    /\ bucket \in MutBuckets
    /\ h = NoHandle
    /\ last = Idle
    /\ g = NoHandle
    /\ snap = <<>>
    /\ acc = NoAcc

\* another writer of the bucket stores, replaces or deletes an object between two
\* calls of this layer (FS only holds a reference to the bucket)
Mutate ==
    /\ last = Idle
    /\ \E k \in MutKeys :
          \/ \E s \in Sizes : bucket' = Put(bucket, k, s)
          \/ bucket' = Delete(bucket, k)
    /\ bucket' # bucket
    /\ UNCHANGED <<h, last, g, snap, acc>>

NextMut ==
    \/ DoOpen
    \/ DoRead
    \/ DoReadAt
    \/ DoSeek
    \/ DoStat
    \/ DoClose
    \/ DoDirReadDir
    \/ DoDirRead
    \/ Release
    \/ Return
    \/ Mutate

SpecMut == InitMut /\ [][NextMut]_vars

(* ----------------------- two handles, two callers ---------------------- *)
\* f2, err := fsys.Open(name) by the second caller: another call of FS.Open
DoOpenG ==
    /\ last = Idle
    /\ g = NoHandle
    /\ \E name \in Names : \E f \in Faults(bucket, name) :
         \E r \in { Open(bucket, name, f.af, f.pf, f.failAt) } :
             /\ g' = r.handle
             /\ last' = [op |-> "OpenG", name |-> name, faults |-> f, err |-> r.err,
                         handle |-> r.handle, lcalls |-> r.lcalls, calls |-> r.calls]
             /\ UNCHANGED <<bucket, h, snap, acc>>

\* n, err := f2.Read(b)
DoReadG ==
    /\ last = Idle
    /\ g.kind = "file"
    /\ \E length \in 0..MaxBuf : \E o \in HandleOutcomes(bucket, g, g.offset, length) :
          \E r \in { openFile_Read(g, bucket, length, o) } :
              /\ g' = r.h
              /\ last' = [op |-> "ReadG", pre |-> g, length |-> length, rr |-> o,
                          n |-> r.n, err |-> r.err, data |-> r.data,
                          opened |-> r.opened, closed |-> r.closed]
              /\ UNCHANGED <<bucket, h, snap, acc>>

\* Seek with the cursor kept per Entry, not per handle: it moves the cursor of
\* every handle of the same Entry
DoSeekG_Shared ==
    /\ last = Idle
    /\ g.kind = "file"
    /\ \E offset \in SeekOffsets : \E whence \in Whences :
          \E r \in { openFile_Seek(g, offset, whence) } :
              /\ g' = r.h
              /\ h' = IF h.kind = "file" /\ h.self = g.self
                       THEN [h EXCEPT !.offset = r.h.offset] ELSE h
              /\ last' = [op |-> "SeekG", pre |-> g, offset |-> offset,
                          whence |-> whence, ret |-> r.ret, err |-> r.err]
              /\ UNCHANGED <<bucket, snap, acc>>

\* pos, err := f2.Seek(offset, whence)
DoSeekG ==
    /\ last = Idle
    /\ g.kind = "file"
    /\ \E offset \in SeekOffsets : \E whence \in Whences :
          \E r \in { openFile_Seek(g, offset, whence) } :
              /\ g' = r.h
              /\ last' = [op |-> "SeekG", pre |-> g, offset |-> offset,
                          whence |-> whence, ret |-> r.ret, err |-> r.err]
              /\ UNCHANGED <<bucket, h, snap, acc>>

\* info, err := f2.Stat()
DoStatG ==
    /\ last = Idle
    /\ g.kind # "none"
    /\ last' = [op |-> "StatG", pre |-> g, info |-> g.self, err |-> Nil, calls |-> <<>>]
    /\ UNCHANGED <<bucket, h, g, snap, acc>>

\* entries, err := d2.ReadDir(n)
DoDirReadDirG ==
    /\ last = Idle
    /\ g.kind = "dir"
    /\ \E n \in (0 - 1)..MaxN :
          \E r \in { openDir_ReadDir(g, n) } :
              /\ g' = r.h
              /\ last' = [op |-> "DirReadDirG", pre |-> g, n |-> n,
                          entries |-> r.entries, err |-> r.err, calls |-> <<>>]
              /\ UNCHANGED <<bucket, h, snap, acc>>

\* the second caller lets go of its handle
ReleaseG ==
    /\ last = Idle
    /\ g.kind # "none"
    /\ g' = NoHandle
    /\ UNCHANGED <<bucket, h, last, snap, acc>>

NextTwo ==
    \/ DoOpen
    \/ DoRead
    \/ DoSeek
    \/ DoStat
    \/ DoDirReadDir
    \/ Release
    \/ DoOpenG
    \/ DoReadG
    \/ DoSeekG
    \/ DoStatG
    \/ DoDirReadDirG
    \/ ReleaseG
    \/ Return

\* two callers of one FS over a bucket that does not change
SpecTwo == InitMut /\ [][NextTwo]_vars

(* ============================== claims ================================ *)
NoFaults(f) == ~ f.af /\ ~ f.pf /\ f.failAt = 0

\* p has no object of its own and at least one key p + "/" + x exists
IsVirtualDir(bkt, p) ==
    /\ ValidPath(p) /\ p # <<".">>
    /\ p \notin DOMAIN bkt
    /\ \E k \in DOMAIN bkt : HasPrefix(k, p \o <<"/">>) /\ Len(k) > Len(p) + 1

\* C1: for every valid non-root path p with a key p + "/" + x and no object at p,
\* Open(p) resolves to a directory Entry, whatever other keys the bucket holds
\* (the backend working).  Violated by the code: searchDir looks only at the
\* first listed key, and a key such as p + ".b" is listed before p + "/".
C1_VirtualDirResolves ==
    (last.op = "Open" /\ NoFaults(last.faults) /\ IsVirtualDir(bucket, last.name))
        => /\ last.err = Nil
           /\ last.handle.kind = "dir"
           /\ last.handle.self.IsDir

\* the path segments of a directory path (none for the root)
Segs(p) == IF p = <<".">> THEN <<>> ELSE Split(p)

\* key k lies under directory p
Under(k, p) ==
    Len(Split(k)) > Len(Segs(p)) /\ SubSeq(Split(k), 1, Len(Segs(p))) = Segs(p)

\* the immediate children of p, by path segments: the next segment of every key
\* under p, a file (with its size) when the key ends there, a directory otherwise
Children(bkt, p) ==
    { [name |-> <<Split(k)[Len(Segs(p)) + 1]>>,
       isDir |-> Len(Split(k)) > Len(Segs(p)) + 1,
       size |-> IF Len(Split(k)) > Len(Segs(p)) + 1 THEN 0 ELSE bkt[k]] :
         k \in { x \in DOMAIN bkt : Under(x, p) } }

\* what a directory entry shows of itself
Shown(e) == [name |-> <<Name(e)>>, isDir |-> e.IsDir, size |-> e.Size]

ShownSet(entries) == { Shown(entries[i]) : i \in 1..Len(entries) }

\* p is a directory: the root, or a virtual directory
IsDirPath(bkt, p) == p = <<".">> \/ IsVirtualDir(bkt, p)

\* C2: for every directory path p (the root included) ReadDir(p) returns exactly
\* the immediate children of p, each once.  Violated by the code where C1 is.
C2_ReadDirChildren ==
    (last.op = "ReadDir" /\ NoFaults(last.faults) /\ IsDirPath(bucket, last.name))
        => /\ last.err = Nil
           /\ ShownSet(last.entries) = Children(bucket, last.name)
           /\ Len(last.entries) = Cardinality(Children(bucket, last.name))

\* C2, where the code does resolve p to a directory: the listing is exact
C2_ChildrenWhenResolved ==
    (last.op = "ReadDir" /\ NoFaults(last.faults) /\ IsDirPath(bucket, last.name)
       /\ last.err = Nil)
        => /\ ShownSet(last.entries) = Children(bucket, last.name)
           /\ Len(last.entries) = Cardinality(Children(bucket, last.name))

\* C8: when the attributes fetch fails with a backend error, Open fails with that
\* error as its cause, wrapped with "open" and the path.  Violated by the code.
C8_AttributesErrorPropagates ==
    (last.op = "Open" /\ last.faults.af)
        => last.err = PathError(opOpen, last.name, "BackendErr")

\* a backend range read that works and delivers at least one byte: no failure to
\* open, no error but io.EOF at the end of the range, Close succeeding
GoodRead(o) ==
    ~ o.openFail /\ o.n >= 1 /\ o.err \in {"nil", "EOF"} /\ o.closeErr = "nil"

\* the read of one byte that such a backend answers a Read of one byte with
OneByte == [openFail |-> FALSE, n |-> 1, err |-> "nil", closeErr |-> "nil"]

RECURSIVE ReadAll(_, _)
\* the concatenation of sequential Read calls on handle f until end-of-stream
ReadAll(f, bkt) ==
    With(openFile_Read(f, bkt, 1, OneByte), LAMBDA r :
        IF r.err = Plain("EOF") THEN <<>> ELSE r.data \o ReadAll(r.h, bkt))

\* C3: for every stored file p and every backend whose range read delivers from 1
\* up to the requested number of bytes, ReadFile(p) succeeds with exactly the
\* concatenation of sequential Read calls on a fresh handle.  Violated by the code.
C3_ReadFileRoundTrip ==
    (last.op = "ReadFile" /\ last.name \in DOMAIN bucket /\ NoFaults(last.faults)
       /\ (bucket[last.name] > 0 => GoodRead(last.rr)))
        => /\ last.err = Nil
           /\ last.data =
                ReadAll(newOpenFile(ListObject(last.name, bucket[last.name], FALSE)), bucket)

\* the absolute offset Seek computes, in the integers of the offsets' width
SeekTarget(f, offset, whence) ==
    CASE whence = SeekStart -> offset
      [] whence = SeekCurrent -> Wrap(f.offset + offset)
      [] whence = SeekEnd -> Wrap(f.self.Size + offset)
      [] OTHER -> 0 - 1

\* C4: Seek with an unrecognized whence or a computed offset outside [0, size] fails
\* with an invalid-argument error and leaves the cursor unchanged; otherwise the
\* cursor becomes the computed offset, which is returned.  A Read with a non-empty
\* buffer at cursor = size returns 0 bytes and end-of-stream.
C4_Seek ==
    /\ last.op = "Seek" =>
         IF \/ last.whence \notin {SeekStart, SeekCurrent, SeekEnd}
            \/ SeekTarget(last.pre, last.offset, last.whence) < 0
            \/ SeekTarget(last.pre, last.offset, last.whence) > last.pre.self.Size
         THEN /\ last.err = PathError(opSeek, last.pre.self.Key, "ErrInvalid")
              /\ h = last.pre
         ELSE /\ last.err = Nil
              /\ last.ret = SeekTarget(last.pre, last.offset, last.whence)
              /\ h = [last.pre EXCEPT !.offset = last.ret]
    /\ (last.op = "Read" /\ last.length > 0 /\ last.pre.offset = last.pre.self.Size) =>
         /\ last.n = 0
         /\ last.err = Plain("EOF")
         /\ h = last.pre

\* C4 witness: a Seek from elsewhere to exactly size has succeeded
C4_Witness ==
    /\ last.op = "Seek" /\ last.err = Nil
    /\ last.pre.self.Size > 0
    /\ last.pre.offset # last.pre.self.Size
    /\ h.offset = h.self.Size

\* C5: ReadAt with a non-empty buffer returns 0 bytes and end-of-stream without a
\* backend call when offset >= size; otherwise it returns the n bytes the backend
\* produced, with end-of-stream when offset + n = size even if the backend reported
\* success, and with no end-of-stream when offset + n < size and the backend
\* reported no error.
C5_ReadAt ==
    (last.op = "ReadAt" /\ last.length > 0) =>
        IF last.offset >= last.pre.self.Size
        THEN last.n = 0 /\ last.err = Plain("EOF") /\ ~ last.opened
        ELSE /\ last.n = last.rr.n
             /\ last.data = Bytes(bucket, last.pre.self.Key, last.offset, last.rr.n)
             /\ (last.offset + last.n = last.pre.self.Size) => last.err = Plain("EOF")
             /\ (last.offset + last.n < last.pre.self.Size
                   /\ ~ last.rr.openFail /\ last.rr.err = "nil")
                  => last.err.Err # "EOF"
             /\ last.err = Plain("EOF")
                  => (last.offset + last.n = last.pre.self.Size \/ last.rr.err = "EOF")

\* C5 witness: a ReadAt that reached exactly size while the backend reported success
C5_Witness ==
    /\ last.op = "ReadAt" /\ last.length > 0
    /\ last.n > 0 /\ last.rr.err = "nil" /\ last.rr.closeErr = "nil"
    /\ last.offset + last.n = last.pre.self.Size
    /\ last.err = Plain("EOF")

\* the children a ReadDir(n > 0) is to return: the next n, or all that remain
NextChildren(d, n) ==
    SubSeq(d.entries, d.offset + 1, d.offset + Min(n, Len(d.entries) - d.offset))

\* C6 as stated: ReadDir(n > 0) returns up to n not-yet-returned children and
\* advances the cursor by their number, and signals end-of-stream whenever fewer
\* than n remain.  Violated: a non-empty remainder comes with no error.
C6_Original ==
    (last.op = "DirReadDir" /\ last.n > 0) =>
        /\ last.entries = NextChildren(last.pre, last.n)
        /\ h = [last.pre EXCEPT !.offset = last.pre.offset + Len(last.entries)]
        /\ (Len(last.pre.entries) - last.pre.offset < last.n) => last.err = Plain("EOF")

\* C6 amended: ReadDir(n > 0) returns up to n not-yet-returned children and advances
\* the cursor by their number; it signals end-of-stream exactly when no child
\* remains (the result is empty), so a remainder of fewer than n children is
\* returned with no error and the call after it signals end-of-stream.
C6_ReadDirPositive ==
    (last.op = "DirReadDir" /\ last.n > 0) =>
        /\ last.entries = NextChildren(last.pre, last.n)
        /\ h = [last.pre EXCEPT !.offset = last.pre.offset + Len(last.entries)]
        /\ IF Len(last.pre.entries) = last.pre.offset
           THEN last.err = Plain("EOF") /\ last.entries = <<>>
           ELSE last.err = Nil /\ last.entries # <<>>

\* C6 witness: fewer than n children remained, and they were returned
C6_Witness ==
    /\ last.op = "DirReadDir" /\ last.n > 0
    /\ Len(last.pre.entries) - last.pre.offset \in 1..(last.n - 1)
    /\ last.pre.offset > 0
    /\ Len(last.entries) = Len(last.pre.entries) - last.pre.offset

\* C7: ReadDir(n <= 0) returns all not-yet-returned children without end-of-stream
\* or error and leaves the cursor at the child count; at that cursor ReadDir(n <= 0)
\* returns empty with no error and ReadDir(n > 0) empty with end-of-stream.  The
\* facade's ReadDir, which is ReadDir(-1), never reports end-of-stream.
C7_ReadDirAll ==
    /\ (last.op = "DirReadDir" /\ last.n <= 0) =>
         /\ last.entries =
              SubSeq(last.pre.entries, last.pre.offset + 1, Len(last.pre.entries))
         /\ last.err = Nil
         /\ h = [last.pre EXCEPT !.offset = Len(last.pre.entries)]
    /\ (last.op = "DirReadDir" /\ last.pre.offset = Len(last.pre.entries)) =>
         /\ last.entries = <<>>
         /\ h = last.pre
         /\ last.err = IF last.n <= 0 THEN Nil ELSE Plain("EOF")
    /\ last.op = "ReadDir" => last.err.Err # "EOF"

\* C7 witness: a ReadDir(n <= 0) on a handle whose children were all returned before
C7_Witness ==
    /\ last.op = "DirReadDir" /\ last.n <= 0
    /\ last.pre.offset = Len(last.pre.entries)
    /\ Len(last.pre.entries) > 0
    /\ last.entries = <<>> /\ last.err = Nil

\* C9: for every valid non-root path p with a stored object, Open(p) resolves to a
\* non-directory Entry with key p and the object's size, also when keys under
\* p + "/" exist (the attributes fetch succeeding).
C9_ObjectResolvesToFile ==
    (last.op = "Open" /\ last.name \in DOMAIN bucket /\ ~ last.faults.af) =>
        /\ last.err = Nil
        /\ last.handle.kind = "file"
        /\ last.handle.self = [Key |-> last.name, Size |-> bucket[last.name],
                               IsDir |-> FALSE]
        /\ last.lcalls = <<"Attributes">>

\* C9 witness: an object opened as a file while keys exist under it
C9_Witness ==
    /\ last.op = "Open" /\ ~ last.faults.af
    /\ last.name \in DOMAIN bucket
    /\ \E k \in DOMAIN bucket : HasPrefix(k, last.name \o <<"/">>)
    /\ last.handle.kind = "file"

\* the validity rule as the claim states it: not the lone root marker, and some
\* segment is empty (a leading or trailing slash, the empty path, "//"), "." or ".."
ViolatesRule(name) ==
    /\ name # <<".">>
    /\ \E i \in 1..Len(Split(name)) : Split(name)[i] \in {<<>>, <<".">>, <<".", ".">>}

\* C10: an invalid path fails with InvalidPath before any backend call; a valid
\* non-root path with neither an object nor a key under path + "/" fails with
\* NotExist; "." resolves to the root Entry (empty key, size 0, isDir) without a
\* backend call during resolution; Open wraps every failure with "open" and the path.
C10_ResolutionOutcomes ==
    last.op = "Open" =>
        /\ ViolatesRule(last.name) =>
             /\ last.err = PathError(opOpen, last.name, "ErrInvalid")
             /\ last.calls = <<>>
             /\ h = NoHandle
        /\ (/\ ~ ViolatesRule(last.name) /\ last.name # <<".">>
            /\ NoFaults(last.faults)
            /\ last.name \notin DOMAIN bucket
            /\ ~ \E k \in DOMAIN bucket : HasPrefix(k, last.name \o <<"/">>)) =>
             /\ last.err = PathError(opOpen, last.name, "ErrNotExist")
             /\ h = NoHandle
        /\ last.name = <<".">> =>
             /\ last.lcalls = <<>>
             /\ last.faults.failAt = 0 =>
                  /\ last.err = Nil
                  /\ last.handle.kind = "dir"
                  /\ last.handle.self = [Key |-> <<>>, Size |-> 0, IsDir |-> TRUE]
        /\ last.err # Nil =>
             last.err.wrapped /\ last.err.Op = "open" /\ last.err.Path = last.name

\* C10 witness: a path with a trailing slash under which keys exist was refused
C10_Witness ==
    /\ last.op = "Open"
    /\ last.name = <<"a", "/">>
    /\ Ka_a \in DOMAIN bucket
    /\ last.err = PathError(opOpen, last.name, "ErrInvalid")

\* how many of the backend calls cs open a listing
Listings(cs) == Cardinality({ i \in 1..Len(cs) : cs[i] = "List" })

\* C11: the child list of a directory handle is fetched by exactly one backend
\* listing when the handle is opened; no ReadDir, Read, Stat or Close on the handle
\* issues a backend call; and whatever keys are added, replaced or removed after
\* the open, the handle's child list stays what the backend listed at the open and
\* every later ReadDir returns its children from that list.
C11_Snapshot ==
    /\ (last.op = "Open" /\ last.handle.kind = "dir") =>
         Listings(SubSeq(last.calls, Len(last.lcalls) + 1, Len(last.calls))) = 1
    /\ (last.op \in {"DirReadDir", "DirRead", "Stat", "Close"} /\ last.pre.kind = "dir") =>
         last.calls = <<>>
    /\ h.kind = "dir" => h.entries = snap
    /\ last.op = "DirReadDir" =>
         /\ last.pre.entries = snap
         /\ last.entries =
              SubSeq(snap, last.pre.offset + 1, last.pre.offset + Len(last.entries))
         /\ (last.n <= 0 \/ last.n >= Len(snap)) =>
              Len(last.entries) = Len(snap) - last.pre.offset

\* C11 witness: a ReadDir returned children that the backend no longer lists as it
\* did at the open
C11_Witness ==
    /\ last.op = "DirReadDir"
    /\ last.entries # <<>>
    /\ List(bucket, last.pre.self.Key) # snap
    /\ \E i \in 1..Len(last.entries) :
          \A j \in 1..Len(List(bucket, last.pre.self.Key)) :
              List(bucket, last.pre.self.Key)[j] # last.entries[i]

\* C12: in every reachable state a file handle's cursor satisfies
\* 0 <= offset <= size (the size recorded at open), whatever byte counts and errors
\* the backend range reads return, and a directory handle's cursor satisfies
\* 0 <= offset <= number of children.  Violated by the code: Read adds the bytes
\* the backend returned without comparing with the recorded size, and the backend
\* returns up to the buffer length once the object has been replaced by a larger one.
C12_CursorInvariant ==
    /\ h.kind = "file" => (0 <= h.offset /\ h.offset <= h.self.Size)
    /\ h.kind = "dir" => (0 <= h.offset /\ h.offset <= Len(h.entries))

\* the backend delivering all it holds for a Read of length bytes on handle f
FullRead(bkt, f, length) ==
    [openFail |-> FALSE, n |-> Avail(bkt, f.self.Key, f.offset, length),
     err |-> "nil", closeErr |-> "nil"]

\* C13: ReadAt never changes the cursor: for every buffer, offset and backend
\* outcome (success, short read, error, failure to open the range reader) the
\* handle after ReadAt is the handle before it, so a Read that follows returns, for
\* every buffer, the bytes it would have returned without the ReadAt.
C13_ReadAtKeepsCursor ==
    last.op = "ReadAt" =>
        /\ h.offset = last.pre.offset
        /\ h = last.pre
        /\ \A length \in 1..MaxBuf :
             openFile_Read(h, bucket, length, FullRead(bucket, h, length))
                 = openFile_Read(last.pre, bucket, length,
                                 FullRead(bucket, last.pre, length))

\* C13 witness: a ReadAt delivered bytes from another place than the cursor, which
\* stayed where it was, away from the start
C13_Witness ==
    /\ last.op = "ReadAt"
    /\ last.n > 0
    /\ last.pre.offset > 0
    /\ last.offset # last.pre.offset
    /\ last.offset + last.n # last.pre.offset
    /\ h.offset = last.pre.offset

\* what ReadDir(-1) returns on another, fresh handle of the directory of handle d
FreshAll(d, bkt) == openDir_ReadDir(newOpenDir(d.self, bkt, 0).handle, 0 - 1).entries

\* C14: on a freshly opened directory handle, for any sequence of positive chunk
\* sizes, the results of the successive ReadDir(n > 0) calls, concatenated, are at
\* every moment the first children of what ReadDir(-1) returns on another fresh
\* handle of the same directory, as many as the cursor counts, and at the first
\* end-of-stream they are that whole list: every child once, in the order the
\* backend listing yielded them, none skipped or repeated.
C14_Pagination ==
    (last.op = "DirReadDir" /\ acc.ok) =>
        \E all \in { FreshAll(h, bucket) } :
            /\ Len(acc.out) = h.offset
            /\ acc.out = SubSeq(all, 1, Len(acc.out))
            /\ all = List(bucket, h.self.Key)
            /\ \A i, j \in 1..Len(acc.out) : i # j => acc.out[i] # acc.out[j]
            /\ last.err = Plain("EOF") => acc.out = all

\* C14 witness: three children or more were returned by two calls or more, in
\* chunks, before end-of-stream
C14_Witness ==
    /\ last.op = "DirReadDir" /\ last.n > 0 /\ last.err = Plain("EOF")
    /\ acc.ok
    /\ acc.k >= 2
    /\ Len(acc.out) >= 3
    /\ acc.k < Len(acc.out)

\* the attributes fetch of Open(name) in the state after it: it fails when the
\* backend fails or no object is stored under name
AttributesFailed == last.faults.af \/ last.name \notin DOMAIN bucket

\* C15: for a valid non-root path, lookup issues the attributes fetch first; when
\* it succeeds lookup issues no listing call (one round trip); only when it fails
\* does lookup issue exactly one prefix listing and advance its iterator exactly
\* once (two round trips), and whether the path is a directory is decided by the
\* first result alone.
C15_CallProtocol ==
    (last.op = "Open" /\ ~ ViolatesRule(last.name) /\ last.name # <<".">>) =>
        /\ last.lcalls # <<>>
        /\ last.lcalls[1] = "Attributes"
        /\ ~ AttributesFailed => last.lcalls = <<"Attributes">>
        /\ AttributesFailed => last.lcalls = <<"Attributes", "List", "Next">>
        /\ last.lcalls \in {<<"Attributes">>, <<"Attributes", "List", "Next">>}
        /\ last.handle.kind = "dir" => Len(last.lcalls) = 3
        /\ (AttributesFailed /\ ~ last.faults.pf /\ last.faults.failAt = 0) =>
             (last.err = Nil <=>
                 /\ List(bucket, last.name) # <<>>
                 /\ List(bucket, last.name)[1].Key = last.name \o <<"/">>)

\* C15 witness: the listing under the path had two results or more, and lookup
\* stopped after the first
C15_Witness ==
    /\ last.op = "Open" /\ ~ ViolatesRule(last.name) /\ last.name # <<".">>
    /\ AttributesFailed
    /\ Len(List(bucket, last.name)) >= 2
    /\ last.lcalls = <<"Attributes", "List", "Next">>

\* C16: Read with an empty buffer returns 0 bytes and no error and leaves the
\* cursor; Read with the cursor at or past size returns 0 bytes and end-of-stream
\* without a backend call; otherwise the cursor advances by exactly the number of
\* bytes returned (by none when the range reader cannot be opened).  And while every
\* backend range read returns at least one byte without error, the Read calls with
\* a non-empty buffer made since the open have delivered the first cursor bytes of
\* the object, each call that is not end-of-stream moves the cursor forward, the
\* cursor never passes size, and the call that returns end-of-stream comes after
\* exactly size bytes: the whole content.
C16_SequentialRead ==
    /\ last.op = "Read" =>
         /\ last.length = 0 =>
              (last.n = 0 /\ last.err = Nil /\ h = last.pre /\ ~ last.opened)
         /\ (last.length > 0 /\ last.pre.offset >= last.pre.self.Size) =>
              /\ last.n = 0 /\ last.err = Plain("EOF")
              /\ h = last.pre /\ ~ last.opened
         /\ (last.length > 0 /\ last.pre.offset < last.pre.self.Size) =>
              /\ h = [last.pre EXCEPT !.offset = last.pre.offset + last.n]
              /\ last.rr.openFail => (last.n = 0 /\ h = last.pre)
              /\ ~ last.rr.openFail => (last.n = last.rr.n /\ last.opened)
    /\ (last.op = "Read" /\ acc.ok) =>
         /\ h.offset <= h.self.Size
         /\ acc.out = SubSeq(Content(bucket, h.self.Key), 1, h.offset)
         /\ acc.k <= h.offset
         /\ last.err # Plain("EOF") => h.offset > last.pre.offset
         /\ last.err = Plain("EOF") =>
              /\ Len(acc.out) = h.self.Size
              /\ acc.out = Content(bucket, h.self.Key)

\* C16 witness: end-of-stream after the whole content of an object of two bytes or
\* more was delivered by two Read calls or more
C16_Witness ==
    /\ last.op = "Read" /\ last.length > 0 /\ last.err = Plain("EOF")
    /\ acc.ok
    /\ acc.k >= 2
    /\ Len(acc.out) = h.self.Size
    /\ h.self.Size >= 2

\* C17: every backend range reader a Read or ReadAt call opened is closed before
\* the call returns, on every path.  Violated by the code: both return without
\* Close when the backend's Read reports an error or end-of-stream, and ReadAt also
\* when it reaches the end of the object.
C17_ReaderClosed ==
    (last.op \in {"Read", "ReadAt"} /\ last.opened) => last.closed

\* every Entry the Open that just returned has constructed: the handle's own and,
\* for a directory, its children (a handle's entries are never replaced later)
HeldEntries ==
    IF last.op # "Open" \/ h.kind = "none" THEN {}
    ELSE IF h.kind = "file" THEN {h.self}
    ELSE {h.self} \cup { h.entries[i] : i \in 1..Len(h.entries) }

\* key k ends in the path separator
EndsInSlash(k) == k # <<>> /\ k[Len(k)] = "/"

\* what follows the last "/" of k (all of k when it holds none)
AfterLastSlash(k) ==
    LET S == { i \in 1..Len(k) : k[i] = "/" }
        j == IF S = {} THEN 0 ELSE CHOOSE i \in S : \A x \in S : x <= i
    IN  SubSeq(k, j + 1, Len(k))

C19_ListingErrorAborts ==
    (last.op = "Open" /\ last.faults.failAt # 0) =>
        /\ last.handle = NoHandle
        /\ h = NoHandle
        /\ last.err = PathError(opOpen, last.name, "BackendErr")
        /\ last.calls = last.lcalls \o ListCalls(last.faults.failAt)

\* C19 witness: the listing failed after it had yielded a child
C19_Witness ==
    /\ last.op = "Open"
    /\ last.faults.failAt >= 2
    /\ Len(List(bucket, DirPrefix(last.name))) >= last.faults.failAt
    /\ h = NoHandle
    /\ last.err.Err = "BackendErr"

\* the calls made on the first handle, and those made on the second
OpsOnH == {"Open", "Read", "Seek", "Stat", "DirReadDir"}
OpsOnG == {"OpenG", "ReadG", "SeekG", "StatG", "DirReadDirG"}

\* the root Entry as it is declared
RootEntry == [Key |-> <<>>, Size |-> 0, IsDir |-> TRUE]

\* C20: every Open returns a fresh handle with its cursor at 0, whatever the other
\* handle is; no call on one handle changes the cursor, the child list or the
\* Entry of the other, also when both are handles of the same path or of the
\* root; and the Entry seen through a handle of the root is always the root Entry
\* as declared.
C20_HandleIndependence ==
    /\ [](last.op \in {"Open", "OpenG"} /\ last.err = Nil => last.handle.offset = 0)
    /\ [](last.op = "Open" => h = last.handle)
    /\ [](last.op = "OpenG" => g = last.handle)
    /\ []((h.kind = "dir" /\ h.self.Key = <<>>) => h.self = RootEntry)
    /\ []((g.kind = "dir" /\ g.self.Key = <<>>) => g.self = RootEntry)
    /\ [][(last = Idle /\ last' # Idle /\ last'.op \in OpsOnG) => h' = h]_vars
    /\ [][(last = Idle /\ last' # Idle /\ last'.op \in OpsOnH) => g' = g]_vars
    /\ [][(last # Idle) => (h' = h /\ g' = g)]_vars

\* C20 witness: two handles of the same path, the call that just returned moved
\* the cursor of the second one, and the first one's cursor is elsewhere, where
\* an earlier call had put it
C20_Witness ==
    /\ last.op \in {"ReadG", "SeekG", "DirReadDirG"}
    /\ h.kind = g.kind
    /\ h.self = g.self
    /\ g.offset # last.pre.offset
    /\ h.offset > 0
    /\ h.offset # g.offset

====
